---- MODULE Spec2Model ----
(***************************************************************************)
(* GoFile keep-alive: the retry primitive, the link verifier and the run   *)
(* loop of src/src/ping-gofile.js, with the earlier verifier revision      *)
(* downloadPartial of src/unnamed/part_002.                                *)
(*                                                                         *)
(* Error messages are sequences of words, so that String.includes is a     *)
(* search of the message and not a comparison of whole messages.           *)
(***************************************************************************)
EXTENDS Integers, Sequences, FiniteSets, TLC

(* ------------------------------ bounds -------------------------------- *)
\* Largest maximum attempt count handed to retryOperation on its own.
MaxAttempts == 6

(* --------------------------- error messages --------------------------- *)
\* The value of an unassigned `let lastError` (JavaScript undefined).
Undefined == <<"<undefined>">>
\* An error object that carries no message (error.message is falsy).
MsgNone == <<>>
MsgTimeout == <<"Timeout", "60000ms", "exceeded">>
Msg429 == <<"HTTP", "429", "Too", "Many", "Requests">>
Msg403 == <<"HTTP", "403", "Forbidden">>
MsgNetwork == <<"fetch", "failed">>
MsgTargetClosed == <<"Target", "page,", "context", "or", "browser", "has", "been", "closed">>
MsgDownloadFailed == <<"Download", "failed">>
MsgContextInvalid == <<"Browser", "context", "is", "no", "longer", "valid">>
MsgLaunchFailed == <<"browserType.launch:", "Failed", "to", "launch">>
MsgNoSuccess == <<"No", "successful", "downloads", "were", "made", "despite", "finding", "download", "links">>
MsgNoUrls == <<"No", "valid", "URLs", "found", "in", "GOFILE_URLS", "environment", "variable">>
MsgTypeError == <<"Cannot", "read", "properties", "of", "undefined", "(reading", "'message')">>

\* message.includes(word)
Includes(msg, word) == \E k \in 1..Len(msg) : msg[k] = word

(* --------------------------- retry primitive -------------------------- *)
VARIABLES
  rpc,        \* position in retryOperation: idle, loop, returned, thrown
  rMax,       \* its maxRetries argument
  attempt,    \* the loop variable
  lastError,  \* the last captured error
  calls,      \* invocations of the operation by this call
  sleeps,     \* the delays this call suspended for, in order
  failures,   \* the errors of the failed attempts, in order
  rResult     \* the value returned or the error thrown

retryVars == <<rpc, rMax, attempt, lastError, calls, sleeps, failures, rResult>>

RECURSIVE Pow(_, _)
Pow(b, e) == IF e <= 0 THEN 1 ELSE b * Pow(b, e - 1)

Min(a, b) == IF a < b THEN a ELSE b

\* error.message && error.message.includes('429')
IsRateLimited(error) == Len(error) > 0 /\ Includes(error, "429")

BackoffDelay_GrowsUncapped(k, error) ==
  IF IsRateLimited(error) THEN 10000 * Pow(3, k - 1) ELSE 1000 * Pow(2, k - 1)

\* The delay computed in the catch block for failed attempt k.
BackoffDelay(k, error) ==
  IF IsRateLimited(error)
    THEN Min(10000 * Pow(3, k - 1), 60000)
    ELSE Min(1000 * Pow(2, k - 1), 10000)

\* retryOperation is entered with maximum attempt count n.
RetryStart(n) ==
  /\ rpc' = "loop"
  /\ rMax' = n
  /\ attempt' = 1
  /\ lastError' = Undefined
  /\ calls' = 0
  /\ sleeps' = <<>>
  /\ failures' = <<>>
  /\ rResult' = Undefined

\* The loop condition holds: the operation is about to be invoked.
RetryInvoking == rpc = "loop" /\ attempt <= rMax

RetryCatch_SleepsAfterLast(error) ==
  /\ lastError' = error
  /\ calls' = calls + 1
  /\ failures' = Append(failures, error)
  /\ sleeps' = Append(sleeps, BackoffDelay(attempt, error))
  /\ attempt' = attempt + 1
  /\ UNCHANGED <<rpc, rMax, rResult>>

RetryCatch_KeepsFirstError(error) ==
  /\ lastError' = IF lastError = Undefined THEN error ELSE lastError
  /\ calls' = calls + 1
  /\ failures' = Append(failures, error)
  /\ sleeps' = IF attempt < rMax
                 THEN Append(sleeps, BackoffDelay(attempt, error))
                 ELSE sleeps
  /\ attempt' = attempt + 1
  /\ UNCHANGED <<rpc, rMax, rResult>>

\* The invoked operation threw `error`: the catch block and the sleep.
RetryCatch(error) ==
  /\ lastError' = error
  /\ calls' = calls + 1
  /\ failures' = Append(failures, error)
  /\ sleeps' = IF attempt < rMax
                 THEN Append(sleeps, BackoffDelay(attempt, error))
                 ELSE sleeps
  /\ attempt' = attempt + 1
  /\ UNCHANGED <<rpc, rMax, rResult>>

RetryReturn_KeepsLooping(value) ==
  /\ calls' = calls + 1
  /\ rResult' = value
  /\ attempt' = attempt + 1
  /\ rpc' = IF attempt < rMax THEN "loop" ELSE "returned"
  /\ UNCHANGED <<rMax, lastError, sleeps, failures>>

\* The invoked operation returned `value`: return await operation().
RetryReturn(value) ==
  /\ rpc' = "returned"
  /\ calls' = calls + 1
  /\ rResult' = value
  /\ UNCHANGED <<rMax, attempt, lastError, sleeps, failures>>

\* The loop is over without a return: throw lastError.
RetryThrow ==
  /\ rpc = "loop"
  /\ attempt > rMax
  /\ rpc' = "thrown"
  /\ rResult' = lastError
  /\ UNCHANGED <<rMax, attempt, lastError, calls, sleeps, failures>>

RetryIdle ==
  /\ rpc = "idle"
  /\ rMax = 0
  /\ attempt = 1
  /\ lastError = Undefined
  /\ calls = 0
  /\ sleeps = <<>>
  /\ failures = <<>>
  /\ rResult = Undefined

(* --------------------------- run statistics --------------------------- *)
VARIABLES
  stats       \* this.stats; successfulPings, failedPings of downloadPartial
              \* are the fields successfulDownloads, failedDownloads here

StatsZero ==
  [totalUrls |-> 0, totalLinks |-> 0, successfulDownloads |-> 0,
   failedDownloads |-> 0, downloadedBytes |-> 0, errors |-> <<>>]

\* RecordFailure without the push to stats.errors.
RecordFailure_CountOnly(s, url, msg) ==
  [s EXCEPT !.failedDownloads = @ + 1]

\* The catch block of the verifier: count the failure, record (url, message).
RecordFailure(s, url, msg) ==
  [s EXCEPT !.failedDownloads = @ + 1,
            !.errors = Append(@, [url |-> url, error |-> msg])]

\* this.stats.successfulDownloads++ of downloadSampleFromLink.
RecordSuccess(s) == [s EXCEPT !.successfulDownloads = @ + 1]

\* successfulPings++ and downloadedBytes += min(received, bytesToDownload).
RecordPartialSuccess(s, received, budget) ==
  [s EXCEPT !.successfulDownloads = @ + 1,
            !.downloadedBytes = @ + Min(received, budget)]

(* ---------------------------- link verifier --------------------------- *)
\* const maxBytes = 1048576
MaxBytes == 1048576
\* Values of options.downloadBytes (DOWNLOAD_BYTES) tried for downloadPartial.
DownloadBytesChoices == {524288, MaxBytes}
\* Most chunks a response body is delivered in.
MaxChunks == 3
ChunkSizes == {524288, 600000}
Bodies == UNION {[1..n -> ChunkSizes] : n \in 0..MaxChunks}
Statuses == {200, 206, 403, 429}
LinkUrls == {"L1", "L2"}

StatusMsg(status) ==
  CASE status = 403 -> Msg403
    [] status = 429 -> Msg429
    [] OTHER -> <<"HTTP", "other">>

VARIABLES
  vpc,        \* position in the verifier: idle, fetch, read, done
  vVariant,   \* downloadSampleFromLink or downloadPartial
  vUrl,       \* the link being verified
  vBudget,    \* maxBytes / bytesToDownload
  vStatus,    \* response.status, 0 before the response
  vBody,      \* chunks the body has yet to deliver
  vBytes,     \* downloadedBytes / received
  vConsumed,  \* total length of the chunks taken from the reader
  vLast,      \* length of the chunk taken last
  vLocked,    \* the reader's lock on the body is held
  transfer,   \* the body stream: none, open, ended, cancelled, errored
  vResult     \* pending, or the boolean the verifier returned

verifyVars == <<vpc, vVariant, vUrl, vBudget, vStatus, vBody, vBytes,
                vConsumed, vLast, vLocked, transfer, vResult>>

VerifyIdle ==
  /\ vpc = "idle"
  /\ vVariant = "downloadSampleFromLink"
  /\ vUrl = "L1"
  /\ vBudget = MaxBytes
  /\ vStatus = 0
  /\ vBody = <<>>
  /\ vBytes = 0
  /\ vConsumed = 0
  /\ vLast = 0
  /\ vLocked = FALSE
  /\ transfer = "none"
  /\ vResult = "pending"

\* The verifier returns false from its catch block.
VerifyFail(msg) ==
  /\ stats' = RecordFailure(stats, vUrl, msg)
  /\ vResult' = FALSE
  /\ vpc' = "done"

VerifySucceed_NoCap(bytes) ==
  /\ stats' = IF vVariant = "downloadPartial"
                THEN [stats EXCEPT !.successfulDownloads = @ + 1,
                                   !.downloadedBytes = @ + bytes]
                ELSE RecordSuccess(stats)
  /\ vResult' = TRUE
  /\ vpc' = "done"

\* The verifier counts the success and returns true.
VerifySucceed(bytes) ==
  /\ stats' = IF vVariant = "downloadPartial"
                THEN RecordPartialSuccess(stats, bytes, vBudget)
                ELSE RecordSuccess(stats)
  /\ vResult' = TRUE
  /\ vpc' = "done"

\* fetch rejects: no response at all.
VFetchRejects ==
  /\ vpc = "fetch"
  /\ VerifyFail(MsgNetwork)
  /\ UNCHANGED <<vVariant, vUrl, vBudget, vStatus, vBody, vBytes, vConsumed,
                 vLast, vLocked, transfer>>

VFetchBadStatus_CountsAsSuccess ==
  /\ vpc = "fetch"
  /\ \E st \in Statuses \ {200, 206}, hasBody \in BOOLEAN, body \in Bodies :
       /\ vStatus' = st
       /\ vBody' = IF hasBody THEN body ELSE <<>>
       /\ transfer' = IF hasBody THEN "open" ELSE "none"
       /\ VerifySucceed(0)
  /\ UNCHANGED <<vVariant, vUrl, vBudget, vBytes, vConsumed, vLast, vLocked>>

\* fetch resolves with a response whose status is not 200 or 206.
VFetchBadStatus ==
  /\ vpc = "fetch"
  /\ \E st \in Statuses \ {200, 206}, hasBody \in BOOLEAN, body \in Bodies :
       /\ vStatus' = st
       /\ vBody' = IF hasBody THEN body ELSE <<>>
       /\ transfer' = IF hasBody THEN "open" ELSE "none"
       /\ VerifyFail(StatusMsg(st))
  /\ UNCHANGED <<vVariant, vUrl, vBudget, vBytes, vConsumed, vLast, vLocked>>

\* fetch resolves with status 200 or 206 and response.body is null.
VFetchNoBody ==
  /\ vpc = "fetch"
  /\ \E st \in {200, 206} :
       /\ vStatus' = st
       /\ IF vVariant = "downloadPartial"
            THEN VerifyFail(<<"No", "response", "body">>)
            ELSE VerifySucceed(0)
  /\ UNCHANGED <<vVariant, vUrl, vBudget, vBody, vBytes, vConsumed, vLast,
                 vLocked, transfer>>

\* fetch resolves with status 200 or 206 and a body: getReader().
VFetchBody ==
  /\ vpc = "fetch"
  /\ \E st \in {200, 206}, body \in Bodies :
       /\ vStatus' = st
       /\ vBody' = body
  /\ transfer' = "open"
  /\ vLocked' = TRUE
  /\ vpc' = "read"
  /\ UNCHANGED <<vVariant, vUrl, vBudget, vBytes, vConsumed, vLast, vResult, stats>>

VReadChunk_ReadsPastBudget ==
  /\ vpc = "read"
  /\ vBytes <= vBudget
  /\ vBody # <<>>
  /\ LET got == vBytes + Head(vBody) IN
       /\ vBytes' = got
       /\ vConsumed' = vConsumed + Head(vBody)
       /\ vLast' = Head(vBody)
       /\ vBody' = Tail(vBody)
       /\ IF got > vBudget
            THEN /\ VerifySucceed(got)
                 /\ vLocked' = (vVariant = "downloadPartial")
                 /\ transfer' = IF vVariant = "downloadPartial"
                                  THEN "cancelled" ELSE transfer
            ELSE UNCHANGED <<vLocked, transfer, vResult, vpc, stats>>
  /\ UNCHANGED <<vVariant, vUrl, vBudget, vStatus>>

\* One reader.read() that delivers a chunk, up to the next await or the return.
VReadChunk ==
  /\ vpc = "read"
  /\ vBytes < vBudget
  /\ vBody # <<>>
  /\ LET got == vBytes + Head(vBody) IN
       /\ vBytes' = got
       /\ vConsumed' = vConsumed + Head(vBody)
       /\ vLast' = Head(vBody)
       /\ vBody' = Tail(vBody)
       /\ IF got >= vBudget
            THEN \* downloadPartial: await reader.cancel(); break.
                 \* downloadSampleFromLink: the loop ends; releaseLock().
                 /\ VerifySucceed(got)
                 /\ vLocked' = (vVariant = "downloadPartial")
                 /\ transfer' = IF vVariant = "downloadPartial"
                                  THEN "cancelled" ELSE transfer
            ELSE UNCHANGED <<vLocked, transfer, vResult, vpc, stats>>
  /\ UNCHANGED <<vVariant, vUrl, vBudget, vStatus>>

\* reader.read() reports done: the body ended below the budget.
VReadDone ==
  /\ vpc = "read"
  /\ vBytes < vBudget
  /\ vBody = <<>>
  /\ transfer' = "ended"
  /\ vLocked' = (vVariant = "downloadPartial")
  /\ VerifySucceed(vBytes)
  /\ UNCHANGED <<vVariant, vUrl, vBudget, vStatus, vBody, vBytes, vConsumed, vLast>>

\* reader.read() rejects: the connection broke while the body was read.
VReadRejects ==
  /\ vpc = "read"
  /\ vBytes < vBudget
  /\ transfer' = "errored"
  /\ vLocked' = (vVariant = "downloadPartial")
  /\ VerifyFail(MsgNetwork)
  /\ UNCHANGED <<vVariant, vUrl, vBudget, vStatus, vBody, vBytes, vConsumed, vLast>>

(* ------------------------------ parseUrls ----------------------------- *)
\* GOFILE_URLS is a sequence of tokens: a line feed, a carriage return, a
\* space, or a run of text without white space.  UrlA and UrlB are texts that
\* new URL accepts, Junk is the text 'invalid-url' that it rejects.
LF == "<LF>"
CR == "<CR>"
SP == "<SP>"
UrlA == "https://gofile.io/d/abc123"
UrlB == "https://gofile.io/d/def456"
Junk == "invalid-url"
Tokens == {LF, CR, SP, UrlA, UrlB, Junk}
\* process.env.GOFILE_URLS when the variable is not set.
Absent == <<"<unset>">>
\* Most tokens in GOFILE_URLS.
MaxEnvLen == 5

RECURSIVE SeqsUpTo(_, _)
SeqsUpTo(S, n) ==
  IF n = 0 THEN {<<>>}
  ELSE LET shorter == SeqsUpTo(S, n - 1)
       IN  shorter \cup {Append(q, t) : q \in {r \in shorter : Len(r) = n - 1},
                                        t \in S}

\* process.env.GOFILE_URLS || ''
EnvOrEmpty(e) == IF e = Absent THEN <<>> ELSE e

\* str.split(/\r?\n/): `cur` is the piece being collected, `acc` the pieces
\* finished so far.
RECURSIVE SplitFrom(_, _, _)
SplitFrom(rest, cur, acc) ==
  IF rest = <<>> THEN Append(acc, cur)
  ELSE IF Head(rest) = LF
    THEN SplitFrom(Tail(rest), <<>>, Append(acc, cur))
  ELSE IF Head(rest) = CR /\ Len(rest) >= 2 /\ rest[2] = LF
    THEN SplitFrom(Tail(Tail(rest)), <<>>, Append(acc, cur))
  ELSE SplitFrom(Tail(rest), Append(cur, Head(rest)), acc)

SplitLines(str) == SplitFrom(str, <<>>, <<>>)

\* White space and line terminators, which String.prototype.trim removes.
IsSpace(t) == t \in {SP, CR, LF}

RECURSIVE TrimStart(_)
TrimStart(str) ==
  IF str # <<>> /\ IsSpace(Head(str)) THEN TrimStart(Tail(str)) ELSE str

RECURSIVE TrimEnd(_)
TrimEnd(str) ==
  IF str # <<>> /\ IsSpace(str[Len(str)])
    THEN TrimEnd(SubSeq(str, 1, Len(str) - 1))
    ELSE str

\* s.trim()
Trim(str) == TrimEnd(TrimStart(str))

\* new URL(url) does not throw.  The URL parser strips leading and trailing
\* spaces and removes every carriage return and line feed, then needs a
\* scheme: a text starting with UrlA or UrlB has one whatever follows (the
\* rest lands in the path), and 'invalid-url' has one only when the text of a
\* URL follows it directly ('invalid-urlhttps' is then read as the scheme).
ParsesAsUrl(url) ==
  LET t == SelectSeq(Trim(url), LAMBDA c : c \notin {CR, LF})
  IN  \E k \in 1..Len(t) :
        /\ t[k] \in {UrlA, UrlB}
        /\ \A j \in 1..(k - 1) : t[j] = Junk

VARIABLES
  ppc,       \* position in parseUrls
  urlsEnv,   \* process.env.GOFILE_URLS
  parsed,    \* the array the chain of split, map and filter is working on
  kept,      \* lines the last filter has accepted so far
  warnings,  \* lines logged as 'Invalid URL format' at level warn
  thrown     \* the error parseUrls threw

parseVars == <<ppc, urlsEnv, parsed, kept, warnings, thrown>>

ParseIdle ==
  /\ ppc = "idle"
  /\ urlsEnv = <<>>
  /\ parsed = <<>>
  /\ kept = <<>>
  /\ warnings = <<>>
  /\ thrown = MsgNone

\* urlsEnv.split(/\r?\n/)
ParseSplit ==
  /\ ppc = "split"
  /\ parsed' = SplitLines(EnvOrEmpty(urlsEnv))
  /\ ppc' = "trim"
  /\ UNCHANGED <<urlsEnv, kept, warnings, thrown, stats>>

ParseTrim_Skipped ==
  /\ ppc = "trim"
  /\ ppc' = "filter"
  /\ UNCHANGED <<parsed, urlsEnv, kept, warnings, thrown, stats>>

\* .map(s => s.trim())
ParseTrim ==
  /\ ppc = "trim"
  /\ parsed' = [k \in 1..Len(parsed) |-> Trim(parsed[k])]
  /\ ppc' = "filter"
  /\ UNCHANGED <<urlsEnv, kept, warnings, thrown, stats>>

\* .filter(Boolean)
ParseFilterBoolean ==
  /\ ppc = "filter"
  /\ parsed' = SelectSeq(parsed, LAMBDA line : line # <<>>)
  /\ ppc' = "validate"
  /\ UNCHANGED <<urlsEnv, kept, warnings, thrown, stats>>

\* The callback of the second filter on the next line: new URL(url) succeeds.
ParseUrlAccepted ==
  /\ ppc = "validate"
  /\ parsed # <<>>
  /\ ParsesAsUrl(Head(parsed))
  /\ kept' = Append(kept, Head(parsed))
  /\ parsed' = Tail(parsed)
  /\ UNCHANGED <<ppc, urlsEnv, warnings, thrown, stats>>

\* The callback of the second filter on the next line: new URL(url) throws.
ParseUrlRejected ==
  /\ ppc = "validate"
  /\ parsed # <<>>
  /\ ~ParsesAsUrl(Head(parsed))
  /\ warnings' = Append(warnings, Head(parsed))
  /\ parsed' = Tail(parsed)
  /\ UNCHANGED <<ppc, urlsEnv, kept, thrown, stats>>

ParseThrows_ReturnsNothing ==
  /\ ppc = "validate"
  /\ parsed = <<>>
  /\ Len(kept) = 0
  /\ ppc' = "returned"
  /\ UNCHANGED <<urlsEnv, parsed, kept, warnings, thrown, stats>>

\* urls.length === 0: throw new Error('No valid URLs found ...').
ParseThrows ==
  /\ ppc = "validate"
  /\ parsed = <<>>
  /\ Len(kept) = 0
  /\ thrown' = MsgNoUrls
  /\ ppc' = "threw"
  /\ UNCHANGED <<urlsEnv, parsed, kept, warnings, stats>>

\* this.stats.totalUrls = urls.length; return urls.
ParseReturns ==
  /\ ppc = "validate"
  /\ parsed = <<>>
  /\ Len(kept) # 0
  /\ stats' = [stats EXCEPT !.totalUrls = Len(kept)]
  /\ ppc' = "returned"
  /\ UNCHANGED <<urlsEnv, parsed, kept, warnings, thrown>>

(* ----------------------- constructor and log -------------------------- *)
\* An environment variable is a sequence of characters, or Unset.
Unset == <<"<unset>">>
EnvChars == {"-", "0", "5", "x"}
\* Most characters in the text of a numeric environment variable.
MaxEnvTextLen == 2
\* Most calls of log followed on one object.
MaxLogCalls == 3

DigitValue(c) == IF c = "5" THEN 5 ELSE 0

\* Number of leading decimal digits of `text`.
RECURSIVE LeadingDigits(_)
LeadingDigits(text) ==
  IF text # <<>> /\ Head(text) \in {"0", "5"}
    THEN 1 + LeadingDigits(Tail(text))
    ELSE 0

\* Value of a sequence of decimal digits.
RECURSIVE DigitsValue(_)
DigitsValue(digits) ==
  IF digits = <<>> THEN 0
  ELSE 10 * DigitsValue(SubSeq(digits, 1, Len(digits) - 1))
       + DigitValue(digits[Len(digits)])

\* parseInt(text): an optional sign, then the longest run of digits; NaN when
\* there is no digit (and for undefined).
ParseInt(text) ==
  LET neg == text # <<>> /\ Head(text) = "-"
      body == IF neg THEN Tail(text) ELSE text
      n == LeadingDigits(body)
      v == DigitsValue(SubSeq(body, 1, n))
  IN  IF n = 0 THEN [nan |-> TRUE, value |-> 0]
      ELSE [nan |-> FALSE, value |-> IF neg THEN 0 - v ELSE v]

\* parseInt(...) || dflt: NaN and 0 are falsy.
OrDefault(parsedInt, dflt) ==
  IF parsedInt.nan \/ parsedInt.value = 0 THEN dflt ELSE parsedInt.value

\* The numeric options and the literal after || in the constructor;
\* downloadBytes is an option of the revision of src/unnamed/part_002.
NumericOptions == {"maxRetries", "timeout", "waitTime", "downloadBytes"}
Default(name) ==
  CASE name = "maxRetries" -> 3
    [] name = "timeout" -> 60000
    [] name = "waitTime" -> 5000
    [] name = "downloadBytes" -> 1024 * 1024

\* A key of the options argument: absent, or present with a value.
NotGiven == [given |-> FALSE, value |-> 0]
FlagNotGiven == [given |-> FALSE, value |-> FALSE]
Given(v) == [given |-> TRUE, value |-> v]

\* level.toUpperCase()
ToUpperCase(level) ==
  CASE level = "info" -> "INFO"
    [] level = "warn" -> "WARN"
    [] level = "error" -> "ERROR"
    [] level = "debug" -> "DEBUG"
    [] level = "trace" -> "TRACE"
    [] level = "Info" -> "INFO"

\* Levels a caller passes to log; LevelOmitted is a call without the argument.
LevelOmitted == "<omitted>"
Levels == {"info", "warn", "error", "debug", "trace", "Info", LevelOmitted}
Messages == {"Test info message", "Test error message"}

VARIABLES
  opc,          \* idle, new (constructor not yet run) or built
  optName,      \* the numeric option the numeric inputs are about
  envText,      \* its environment variable
  envHeadless,  \* process.env.HEADLESS
  envVerbose,   \* process.env.VERBOSE
  passed,       \* the options argument of the constructor
  options,      \* this.options
  logCalls,     \* history: the calls of log, as [level, message]
  console       \* what console.log, console.warn and console.error received

objectVars == <<opc, optName, envText, envHeadless, envVerbose, passed, options,
                logCalls, console>>

NoOptions == [num |-> 0, headless |-> TRUE, verbose |-> FALSE]

ObjectIdle ==
  /\ opc = "idle"
  /\ optName = "maxRetries"
  /\ envText = Unset
  /\ envHeadless = Unset
  /\ envVerbose = Unset
  /\ passed = [num |-> NotGiven, headless |-> FlagNotGiven,
                verbose |-> FlagNotGiven]
  /\ options = NoOptions
  /\ logCalls = <<>>
  /\ console = <<>>

\* new GoFileKeepAlive(options): the environment values and defaults first,
\* then ...options over them.
Construct ==
  /\ opc = "new"
  /\ options' =
       [num |-> IF passed.num.given THEN passed.num.value
                ELSE OrDefault(ParseInt(envText), Default(optName)),
        headless |-> IF passed.headless.given THEN passed.headless.value
                     ELSE envHeadless # <<"false">>,
        verbose |-> IF passed.verbose.given THEN passed.verbose.value
                    ELSE envVerbose = <<"true">>]
  /\ opc' = "built"
  /\ UNCHANGED <<optName, envText, envHeadless, envVerbose, passed, logCalls,
                 console>>

\* What log(message, level) hands to the console, as a sequence of at most
\* one record.
LogOutput(message, level, verbose) ==
  LET lv == IF level = LevelOmitted THEN "info" ELSE level
      record == [tag |-> ToUpperCase(lv), message |-> message]
  IN  IF lv = "error" THEN <<record @@ [stream |-> "error"]>>
      ELSE IF lv = "warn" THEN <<record @@ [stream |-> "warn"]>>
      ELSE IF lv = "debug" /\ verbose THEN <<record @@ [stream |-> "log"]>>
      ELSE IF lv = "info" THEN <<record @@ [stream |-> "log"]>>
      ELSE <<>>

Log_DebugAlways ==
  /\ opc = "built"
  /\ Len(logCalls) < MaxLogCalls
  /\ \E level \in Levels, message \in Messages :
       /\ logCalls' = Append(logCalls, [level |-> level, message |-> message])
       /\ console' = console \o LogOutput(message, level, TRUE)
  /\ UNCHANGED <<opc, optName, envText, envHeadless, envVerbose, passed, options>>

\* this.log(message, level)
Log ==
  /\ opc = "built"
  /\ Len(logCalls) < MaxLogCalls
  /\ \E level \in Levels, message \in Messages :
       /\ logCalls' = Append(logCalls, [level |-> level, message |-> message])
       /\ console' = console \o LogOutput(message, level, options.verbose)
  /\ UNCHANGED <<opc, optName, envText, envHeadless, envVerbose, passed, options>>

(* ---------------------------- HeadersManager -------------------------- *)
\* User agents are sequences of words, one per browser family; an Edge user
\* agent holds both 'Chrome' and 'Edg'.
UaChrome == <<"Mozilla/5.0", "AppleWebKit", "Chrome", "Safari">>
UaFirefox == <<"Mozilla/5.0", "Gecko", "Firefox">>
UaEdge == <<"Mozilla/5.0", "AppleWebKit", "Chrome", "Safari", "Edg">>
userAgents == {UaChrome, UaFirefox, UaEdge}
acceptLanguages == {"en-US,en;q=0.9", "en-GB,en;q=0.9"}
acceptEncodings == {"gzip, deflate, br"}
secFetchSites == {"same-origin", "none"}
\* this.sessionHeaders = null, and a header the object does not hold.
NoHeaders == [userAgent |-> <<>>]
NoHeader == "<absent>"
\* Most calls made to one HeadersManager.
MaxHeaderCalls == 5

\* isChrome || isEdge
IsChromium(ua) ==
  \/ Includes(ua, "Chrome") /\ ~Includes(ua, "Edg")
  \/ Includes(ua, "Edg")

\* The header objects getRandomBrowserHeaders can build: random user agent,
\* Accept-Language, Accept-Encoding and DNT, and for Chrome and Edge the
\* sec-ch-ua group and a random Sec-Fetch-Site.
BrowserHeaderSets ==
  {[userAgent |-> ua, acceptLanguage |-> lang, acceptEncoding |-> enc,
    dnt |-> d, secChUa |-> IF IsChromium(ua) THEN ua ELSE <<>>,
    secFetchSite |-> site] :
     ua \in userAgents, lang \in acceptLanguages, enc \in acceptEncodings,
     d \in {"1", NoHeader}, site \in secFetchSites \cup {NoHeader}}

\* Those of them whose Sec-Fetch-Site goes with the user agent.
DrawnBrowserHeaders ==
  {h \in BrowserHeaderSets :
     (h.secFetchSite # NoHeader) <=> IsChromium(h.userAgent)}

\* The header objects getRandomDownloadHeaders can build.
DownloadHeaderSets ==
  {[userAgent |-> ua, acceptLanguage |-> lang, acceptEncoding |-> enc] :
     ua \in userAgents, lang \in acceptLanguages, enc \in acceptEncodings}

VARIABLES
  sessionHeaders,   \* this.sessionHeaders
  hcalls,           \* calls made to the HeadersManager so far
  lastCall,         \* the method called last
  sessionReturns,   \* history: what getRandomBrowserHeaders returned since the last reset
  sessionDraws,     \* history: header sets drawn since the last reset
  downloadHeaders   \* what getRandomDownloadHeaders returned last

headerVars == <<sessionHeaders, hcalls, lastCall, sessionReturns, sessionDraws,
                downloadHeaders>>

\* new HeadersManager()
HeadersConstructed ==
  /\ sessionHeaders = NoHeaders
  /\ hcalls = 0
  /\ lastCall = "constructor"
  /\ sessionReturns = <<>>
  /\ sessionDraws = 0
  /\ downloadHeaders = NoHeaders

\* The two branches of getRandomBrowserHeaders, as a step of any caller.
ReturnSessionHeaders ==
  IF sessionHeaders # NoHeaders
    THEN /\ sessionReturns' = Append(sessionReturns, sessionHeaders)
         /\ UNCHANGED <<sessionHeaders, sessionDraws>>
    ELSE \E h \in DrawnBrowserHeaders :
           /\ sessionHeaders' = h
           /\ sessionReturns' = Append(sessionReturns, h)
           /\ sessionDraws' = sessionDraws + 1

GetRandomBrowserHeaders_NeverCaches ==
  /\ hcalls < MaxHeaderCalls
  /\ hcalls' = hcalls + 1
  /\ lastCall' = "getRandomBrowserHeaders"
  /\ \E h \in DrawnBrowserHeaders :
       /\ sessionReturns' = Append(sessionReturns, h)
       /\ sessionDraws' = sessionDraws + 1
  /\ UNCHANGED <<sessionHeaders, downloadHeaders>>

\* headersManager.getRandomBrowserHeaders()
GetRandomBrowserHeaders ==
  /\ hcalls < MaxHeaderCalls
  /\ hcalls' = hcalls + 1
  /\ lastCall' = "getRandomBrowserHeaders"
  /\ ReturnSessionHeaders
  /\ UNCHANGED downloadHeaders

\* headersManager.getRandomDownloadHeaders()
GetRandomDownloadHeaders ==
  /\ hcalls < MaxHeaderCalls
  /\ hcalls' = hcalls + 1
  /\ lastCall' = "getRandomDownloadHeaders"
  /\ downloadHeaders' \in DownloadHeaderSets
  /\ UNCHANGED <<sessionHeaders, sessionReturns, sessionDraws>>

\* headersManager.resetSession()
ResetSession ==
  /\ hcalls < MaxHeaderCalls
  /\ hcalls' = hcalls + 1
  /\ lastCall' = "resetSession"
  /\ sessionHeaders' = NoHeaders
  /\ sessionReturns' = <<>>
  /\ sessionDraws' = 0
  /\ UNCHANGED downloadHeaders

\* The calls setupBrowser makes to the HeadersManager before it launches:
\* resetSession(), then getRandomBrowserHeaders().
SetupBrowserHeaders ==
  /\ hcalls < MaxHeaderCalls
  /\ hcalls' = hcalls + 1
  /\ lastCall' = "setupBrowser"
  /\ \E h \in DrawnBrowserHeaders :
       /\ sessionHeaders' = h
       /\ sessionReturns' = <<h>>
       /\ sessionDraws' = 1
  /\ UNCHANGED downloadHeaders

(* ------------------------- run and processUrl ------------------------- *)
\* Most targets parseUrls returns, most links one probe finds, and the largest
\* options.maxRetries tried.
MaxUrls == 2
MaxLinks == 2
MaxRetriesOpt == 2
\* Most failures the browser, the network and the site inject into one run.
MaxFaults == 3

TargetUrl(k) == <<"target", k>>
LinkUrl(j) == <<"link", j>>

\* The href of the j-th link findDownloadLinks returns, and the value true a
\* link attempt returns, as retryOperation hands them on: like an error
\* message, a sequence of words.
Href(j) == ToString(j)
True == <<"true">>

\* Errors a probe attempt (newPage, findDownloadLinks) may raise while the
\* browser is connected; the last is a navigation error quoting a URL that
\* holds the digits 429.
MsgNavigation429 == <<"page.goto:", "net::ERR_ABORTED", "at", "429">>
ProbeErrors == {MsgTimeout, MsgTargetClosed, MsgNavigation429}
MsgContextFailed == <<"browser.newContext:", "Failed", "to", "create", "context">>
\* What downloadSampleFromLink records when an attempt fails: fetch rejected,
\* or the server answered 429.
LinkFailures == {MsgNetwork, StatusMsg(429)}

VARIABLES
  pc,            \* position in run
  urls,          \* what parseUrls returns
  maxRetriesOpt, \* this.options.maxRetries
  i,             \* index of the target in hand, from 1
  browser,       \* run's variable browser: 0 is undefined or null
  context,       \* run's variable context: 0 is undefined or null
  browsers,      \* every browser launched: open, disconnected or closed
  newBrowser,    \* setupBrowser's local const browser
  page,          \* processUrl's page: none, open or closed
  links,         \* downloadLinks of the target in hand
  linkIdx,       \* position of the for..of loop over downloadLinks
  successCount,  \* processUrl's successCount
  attempted,     \* links of the target in hand handed to the verifier
  puOutcome,     \* how processUrl ended for the target in hand
  fatal,         \* the first setupBrowser of run threw
  faults,        \* failures injected so far
  exitCode,      \* -1 while running, then the argument of process.exit
  outcomes,      \* history: how the loop body ended for each target taken up
  errorAt,       \* history: target and link in hand at each push to stats.errors
  openPages      \* history: pages opened by processUrl and not closed since

runVars == <<pc, urls, maxRetriesOpt, i, browser, context, browsers, newBrowser,
             page, links, linkIdx, successCount, attempted, puOutcome, fatal,
             faults, exitCode, outcomes, errorAt, openPages>>

vars == <<retryVars, verifyVars, parseVars, headerVars, objectVars, stats, runVars>>

RunIdle ==
  /\ pc = "idle"
  /\ urls = <<>>
  /\ maxRetriesOpt = 3
  /\ i = 1
  /\ browser = 0
  /\ context = 0
  /\ browsers = <<>>
  /\ newBrowser = 0
  /\ page = "none"
  /\ links = <<>>
  /\ linkIdx = 1
  /\ successCount = 0
  /\ attempted = {}
  /\ puOutcome = "none"
  /\ fatal = FALSE
  /\ faults = 0
  /\ exitCode = -1
  /\ outcomes = <<>>
  /\ errorAt = <<>>
  /\ openPages = 0

\* browser.close() on run's variable, skipped when it is undefined or null.
CloseBrowser(bs, b) == IF b = 0 THEN bs ELSE [bs EXCEPT ![b] = "closed"]

\* isBrowserAlive(browser, context)
IsBrowserAlive ==
  /\ browser # 0
  /\ browsers[browser] = "open"
  /\ context # 0

\* error.message.includes('closed') || error.message.includes('Target')
IsBrowserIssue(msg) == Includes(msg, "closed") \/ Includes(msg, "Target")

\* The finally block of processUrl.
ClosePage(p) == IF p = "open" THEN "closed" ELSE p

\* Open pages left of `n` when page.close() has run on `p`, if it was open.
PagesAfterClose(p, n) == IF p = "open" THEN n - 1 ELSE n

\* One iteration of the target loop of run ends for urls[i].
Finished(how) == Append(outcomes, [target |-> urls[i], how |-> how])

RunCatch_PrependsError(msg) ==
  /\ stats' = [stats EXCEPT !.errors =
                 <<[url |-> TargetUrl(urls[i]), error |-> msg]>> \o @]
  /\ errorAt' = Append(errorAt, [target |-> i, link |-> 0])
  /\ IF IsBrowserIssue(msg)
       THEN /\ browsers' = CloseBrowser(browsers, browser)
            /\ browser' = 0
            /\ context' = 0
       ELSE UNCHANGED <<browsers, browser, context>>
  /\ i' = i + 1
  /\ pc' = "iter"

\* RunCatch that takes the failed target again.
RunCatch_RepeatsTarget(msg) ==
  /\ stats' = [stats EXCEPT !.errors =
                 Append(@, [url |-> TargetUrl(urls[i]), error |-> msg])]
  /\ errorAt' = Append(errorAt, [target |-> i, link |-> 0])
  /\ IF IsBrowserIssue(msg)
       THEN /\ browsers' = CloseBrowser(browsers, browser)
            /\ browser' = 0
            /\ context' = 0
       ELSE UNCHANGED <<browsers, browser, context>>
  /\ i' = i
  /\ pc' = "iter"

\* The catch block of the target loop of run, and the step to the next target.
RunCatch(msg) ==
  /\ stats' = [stats EXCEPT !.errors =
                 Append(@, [url |-> TargetUrl(urls[i]), error |-> msg])]
  /\ errorAt' = Append(errorAt, [target |-> i, link |-> 0])
  /\ IF IsBrowserIssue(msg)
       THEN /\ browsers' = CloseBrowser(browsers, browser)
            /\ browser' = 0
            /\ context' = 0
       ELSE UNCHANGED <<browsers, browser, context>>
  /\ i' = i + 1
  /\ pc' = "iter"

\* run rejects or resolves: its finally block closes run's browser, and the
\* main execution exits with `code`.
RunEnds(code) ==
  /\ browsers' = CloseBrowser(browsers, browser)
  /\ exitCode' = code
  /\ pc' = "exited"

\* processUrl is entered for the target in hand.
StartProcessUrl ==
  /\ page' = "none"
  /\ links' = <<>>
  /\ linkIdx' = 1
  /\ successCount' = 0
  /\ attempted' = {}
  /\ puOutcome' = "none"
  /\ RetryStart(maxRetriesOpt)
  /\ pc' = "probe"

\* The catch and finally blocks of processUrl when `error` reaches them, and
\* the catch block of run after them.
ProcessUrlThrows(error) ==
  /\ page' = ClosePage(page)
  /\ openPages' = PagesAfterClose(page, openPages)
  /\ puOutcome' = "threw"
  /\ RunCatch(IF error = Undefined THEN MsgTypeError ELSE error)

\* const urls = this.parseUrls() once parseUrls has ended, and what run does
\* when it threw.  A target is named by its position in the list, so that
\* equal lines stay separate units of work.
ParseUrls ==
  /\ pc = "start"
  /\ ppc \in {"returned", "threw"}
  /\ IF ppc = "threw"
       THEN /\ RunEnds(1)
            /\ UNCHANGED urls
       ELSE /\ urls' = [k \in 1..Len(kept) |-> k]
            /\ pc' = "launch0"
            /\ UNCHANGED <<browsers, exitCode>>
  /\ UNCHANGED <<maxRetriesOpt, i, browser, context, newBrowser, page,
                 links, linkIdx, successCount, attempted, puOutcome, fatal,
                 faults>>
  /\ UNCHANGED <<retryVars, verifyVars, stats>>
  /\ UNCHANGED <<outcomes, errorAt>>
  /\ UNCHANGED openPages

\* chromium.launch resolves inside setupBrowser.
SetupLaunch ==
  /\ pc \in {"launch0", "launch"}
  /\ browsers' = Append(browsers, "open")
  /\ newBrowser' = Len(browsers) + 1
  /\ pc' = IF pc = "launch0" THEN "context0" ELSE "context"
  /\ UNCHANGED <<urls, maxRetriesOpt, i, browser, context, page, links, linkIdx,
                 successCount, attempted, puOutcome, fatal, faults, exitCode>>
  /\ UNCHANGED <<retryVars, verifyVars, stats>>
  /\ UNCHANGED <<outcomes, errorAt>>
  /\ UNCHANGED openPages

\* chromium.launch rejects inside setupBrowser.
SetupLaunchFails ==
  /\ pc \in {"launch0", "launch"}
  /\ faults < MaxFaults
  /\ faults' = faults + 1
  /\ IF pc = "launch0"
       THEN /\ fatal' = TRUE
            /\ RunEnds(1)
            /\ UNCHANGED <<stats, browser, context, i, outcomes, errorAt>>
       ELSE /\ RunCatch(MsgLaunchFailed)
            /\ outcomes' = Finished("relaunchFailed")
            /\ UNCHANGED <<fatal, exitCode>>
  /\ UNCHANGED <<urls, maxRetriesOpt, newBrowser, page, links, linkIdx,
                 successCount, attempted, puOutcome>>
  /\ UNCHANGED <<retryVars, verifyVars>>
  /\ UNCHANGED openPages

\* browser.newContext, addInitScript and route resolve: return {browser, context}.
SetupContext ==
  /\ pc \in {"context0", "context"}
  /\ browser' = newBrowser
  /\ context' = newBrowser
  /\ newBrowser' = 0
  /\ IF pc = "context0"
       THEN /\ pc' = "iter"
            /\ UNCHANGED <<page, links, linkIdx, successCount, attempted,
                           puOutcome, retryVars>>
       ELSE StartProcessUrl
  /\ UNCHANGED <<urls, maxRetriesOpt, i, browsers, fatal, faults, exitCode>>
  /\ UNCHANGED <<verifyVars, stats>>
  /\ UNCHANGED <<outcomes, errorAt>>
  /\ UNCHANGED openPages

\* browser.newContext, addInitScript or route rejects: setupBrowser throws with
\* the launched browser held only by its own local.
SetupContextFails ==
  /\ pc \in {"context0", "context"}
  /\ faults < MaxFaults
  /\ faults' = faults + 1
  /\ newBrowser' = 0
  /\ IF pc = "context0"
       THEN /\ fatal' = TRUE
            /\ RunEnds(1)
            /\ UNCHANGED <<stats, browser, context, i, outcomes, errorAt>>
       ELSE /\ RunCatch(MsgContextFailed)
            /\ outcomes' = Finished("relaunchFailed")
            /\ UNCHANGED <<fatal, exitCode>>
  /\ UNCHANGED <<urls, maxRetriesOpt, page, links, linkIdx, successCount,
                 attempted, puOutcome>>
  /\ UNCHANGED <<retryVars, verifyVars>>
  /\ UNCHANGED openPages

IterProcess_SkipsLivenessCheck ==
  /\ pc = "iter"
  /\ i <= Len(urls)
  /\ StartProcessUrl
  /\ UNCHANGED <<urls, maxRetriesOpt, i, browser, context, browsers, newBrowser,
                 fatal, faults, exitCode>>
  /\ UNCHANGED <<verifyVars, stats>>
  /\ UNCHANGED <<outcomes, errorAt>>
  /\ UNCHANGED openPages

\* Top of the target loop, browser alive: processUrl(context, url).
IterProcess ==
  /\ pc = "iter"
  /\ i <= Len(urls)
  /\ IsBrowserAlive
  /\ StartProcessUrl
  /\ UNCHANGED <<urls, maxRetriesOpt, i, browser, context, browsers, newBrowser,
                 fatal, faults, exitCode>>
  /\ UNCHANGED <<verifyVars, stats>>
  /\ UNCHANGED <<outcomes, errorAt>>
  /\ UNCHANGED openPages

\* Top of the target loop, browser not alive: close the old one, setupBrowser.
IterRecreate ==
  /\ pc = "iter"
  /\ i <= Len(urls)
  /\ ~IsBrowserAlive
  /\ browsers' = CloseBrowser(browsers, browser)
  /\ pc' = "launch"
  /\ UNCHANGED <<urls, maxRetriesOpt, i, browser, context, newBrowser, page,
                 links, linkIdx, successCount, attempted, puOutcome, fatal,
                 faults, exitCode>>
  /\ UNCHANGED <<retryVars, verifyVars, stats>>
  /\ UNCHANGED <<outcomes, errorAt>>
  /\ UNCHANGED openPages

\* The browser process dies or disconnects while a target is being probed or
\* between two targets; its pages go with it.
BrowserCrash ==
  /\ pc \in {"iter", "probe"}
  /\ i <= Len(urls)
  /\ pc = "probe" => rpc = "loop"
  /\ browser # 0
  /\ browsers[browser] = "open"
  /\ faults < MaxFaults
  /\ faults' = faults + 1
  /\ browsers' = [browsers EXCEPT ![browser] = "disconnected"]
  /\ page' = ClosePage(page)
  /\ UNCHANGED <<pc, urls, maxRetriesOpt, i, browser, context, newBrowser, links,
                 linkIdx, successCount, attempted, puOutcome, fatal, exitCode>>
  /\ UNCHANGED <<retryVars, verifyVars, stats>>
  /\ UNCHANGED <<outcomes, errorAt>>
  /\ openPages' = 0

\* ProbeFails without the close of the previous attempt's page.
ProbeFails_LeavesPageOpen ==
  /\ pc = "probe"
  /\ RetryInvoking
  /\ context # 0
  /\ browsers[context] = "open"
  /\ faults < MaxFaults
  /\ faults' = faults + 1
  /\ page' = "open"
  /\ \E e \in ProbeErrors : RetryCatch(e)
  /\ UNCHANGED <<pc, urls, maxRetriesOpt, i, browser, context, browsers,
                 newBrowser, links, linkIdx, successCount, attempted, puOutcome,
                 fatal, exitCode>>
  /\ UNCHANGED <<verifyVars, stats>>
  /\ UNCHANGED <<outcomes, errorAt>>
  /\ openPages' = openPages + 1

\* One attempt of the probe operation on a live browser that throws: the
\* previous page is closed, a fresh page is opened, findDownloadLinks throws.
ProbeFails ==
  /\ pc = "probe"
  /\ RetryInvoking
  /\ context # 0
  /\ browsers[context] = "open"
  /\ faults < MaxFaults
  /\ faults' = faults + 1
  /\ page' = "open"
  /\ \E e \in ProbeErrors : RetryCatch(e)
  /\ UNCHANGED <<pc, urls, maxRetriesOpt, i, browser, context, browsers,
                 newBrowser, links, linkIdx, successCount, attempted, puOutcome,
                 fatal, exitCode>>
  /\ UNCHANGED <<verifyVars, stats>>
  /\ UNCHANGED <<outcomes, errorAt>>
  /\ openPages' = PagesAfterClose(page, openPages) + 1

\* One attempt of the probe operation without a usable context: the previous
\* page is closed, then the context check or context.newPage throws.
ProbeBroken ==
  /\ pc = "probe"
  /\ RetryInvoking
  /\ context = 0 \/ browsers[context] # "open"
  /\ page' = ClosePage(page)
  /\ RetryCatch(IF context = 0 THEN MsgContextInvalid ELSE MsgTargetClosed)
  /\ UNCHANGED <<pc, urls, maxRetriesOpt, i, browser, context, browsers,
                 newBrowser, links, linkIdx, successCount, attempted, puOutcome,
                 fatal, faults, exitCode>>
  /\ UNCHANGED <<verifyVars, stats>>
  /\ UNCHANGED <<outcomes, errorAt>>
  /\ openPages' = PagesAfterClose(page, openPages)

\* One attempt of the probe operation that returns Array.from(downloadLinks).
ProbeSucceeds ==
  /\ pc = "probe"
  /\ RetryInvoking
  /\ context # 0
  /\ browsers[context] = "open"
  /\ page' = "open"
  /\ \E m \in 0..MaxLinks : RetryReturn([j \in 1..m |-> Href(j)])
  /\ UNCHANGED <<pc, urls, maxRetriesOpt, i, browser, context, browsers,
                 newBrowser, links, linkIdx, successCount, attempted, puOutcome,
                 fatal, faults, exitCode>>
  /\ UNCHANGED <<verifyVars, stats>>
  /\ UNCHANGED <<outcomes, errorAt>>
  /\ openPages' = PagesAfterClose(page, openPages) + 1

ProbeExhausted_AbortsRun ==
  /\ pc = "probe"
  /\ RetryThrow
  /\ page' = ClosePage(page)
  /\ puOutcome' = "threw"
  /\ stats' = [stats EXCEPT !.errors =
                 Append(@, [url |-> TargetUrl(urls[i]),
                            error |-> IF lastError = Undefined
                                        THEN MsgTypeError ELSE lastError])]
  /\ errorAt' = Append(errorAt, [target |-> i, link |-> 0])
  /\ outcomes' = Finished("probeFailed")
  /\ RunEnds(1)
  /\ UNCHANGED <<urls, maxRetriesOpt, i, browser, context, newBrowser, links,
                 linkIdx, successCount, attempted, fatal, faults>>
  /\ UNCHANGED verifyVars
  /\ openPages' = PagesAfterClose(page, openPages)

\* The probe's retryOperation throws lastError out of processUrl.
ProbeExhausted ==
  /\ pc = "probe"
  /\ RetryThrow
  /\ ProcessUrlThrows(lastError)
  /\ UNCHANGED <<urls, maxRetriesOpt, newBrowser, links, linkIdx, successCount,
                 attempted, fatal, faults,
                 exitCode>>
  /\ UNCHANGED verifyVars
  /\ outcomes' = Finished("probeFailed")

ProbeReturned_NoLinksIsFailure ==
  /\ pc = "probe"
  /\ rpc = "returned"
  /\ links' = [j \in 1..Len(rResult) |-> j]
  /\ IF Len(rResult) = 0
       THEN /\ page' = ClosePage(page)
            /\ puOutcome' = "returned"
            /\ outcomes' = Finished("noLinks")
            /\ i' = i + 1
            /\ pc' = "iter"
            /\ stats' = [stats EXCEPT !.failedDownloads = @ + 1]
            /\ UNCHANGED <<linkIdx, retryVars>>
       ELSE /\ stats' = [stats EXCEPT !.totalLinks = @ + Len(rResult)]
            /\ linkIdx' = 1
            /\ RetryStart(2)
            /\ pc' = "verify"
            /\ UNCHANGED <<page, puOutcome, i, outcomes>>
  /\ UNCHANGED <<urls, maxRetriesOpt, browser, context, browsers, newBrowser,
                 successCount, attempted, fatal, faults,
                 exitCode>>
  /\ UNCHANGED verifyVars
  /\ UNCHANGED errorAt
  /\ openPages' = IF Len(rResult) = 0 THEN PagesAfterClose(page, openPages)
                                       ELSE openPages

\* processUrl after the probe returned its links.
ProbeReturned ==
  /\ pc = "probe"
  /\ rpc = "returned"
  /\ links' = [j \in 1..Len(rResult) |-> j]
  /\ IF Len(rResult) = 0
       THEN /\ page' = ClosePage(page)
            /\ puOutcome' = "returned"
            /\ outcomes' = Finished("noLinks")
            /\ i' = i + 1
            /\ pc' = "iter"
            /\ UNCHANGED <<stats, linkIdx, retryVars>>
       ELSE /\ stats' = [stats EXCEPT !.totalLinks = @ + Len(rResult)]
            /\ linkIdx' = 1
            /\ RetryStart(2)
            /\ pc' = "verify"
            /\ UNCHANGED <<page, puOutcome, i, outcomes>>
  /\ UNCHANGED <<urls, maxRetriesOpt, browser, context, browsers, newBrowser,
                 successCount, attempted, fatal, faults,
                 exitCode>>
  /\ UNCHANGED verifyVars
  /\ UNCHANGED errorAt
  /\ openPages' = IF Len(rResult) = 0 THEN PagesAfterClose(page, openPages)
                                       ELSE openPages

\* LinkAttemptOk whose operation throws after the success was counted, so that
\* the link is tried again.
LinkAttemptOk_ThrowsAfterCounting ==
  /\ pc = "verify"
  /\ RetryInvoking
  /\ attempted' = attempted \cup {linkIdx}
  /\ stats' = RecordSuccess(stats)
  /\ RetryCatch(MsgDownloadFailed)
  /\ UNCHANGED <<pc, urls, maxRetriesOpt, i, browser, context, browsers,
                 newBrowser, page, links, linkIdx, successCount, puOutcome,
                 fatal, faults, exitCode>>
  /\ UNCHANGED verifyVars
  /\ UNCHANGED <<outcomes, errorAt>>
  /\ UNCHANGED openPages

\* One attempt on the link in hand: downloadSampleFromLink counts a success and
\* returns true (status 200 or 206, body read or absent).
LinkAttemptOk ==
  /\ pc = "verify"
  /\ RetryInvoking
  /\ attempted' = attempted \cup {linkIdx}
  /\ stats' = RecordSuccess(stats)
  /\ RetryReturn(True)
  /\ UNCHANGED <<pc, urls, maxRetriesOpt, i, browser, context, browsers,
                 newBrowser, page, links, linkIdx, successCount, puOutcome,
                 fatal, faults, exitCode>>
  /\ UNCHANGED verifyVars
  /\ UNCHANGED <<outcomes, errorAt>>
  /\ UNCHANGED openPages

\* One attempt on the link in hand: downloadSampleFromLink records the failure
\* (fetch or read rejects, or another status) and returns false, and the
\* operation throws new Error('Download failed').
LinkAttemptFails ==
  /\ pc = "verify"
  /\ RetryInvoking
  /\ faults < MaxFaults
  /\ faults' = faults + 1
  /\ attempted' = attempted \cup {linkIdx}
  /\ \E msg \in LinkFailures :
       stats' = RecordFailure(stats, LinkUrl(links[linkIdx]), msg)
  /\ RetryCatch(MsgDownloadFailed)
  /\ UNCHANGED <<pc, urls, maxRetriesOpt, i, browser, context, browsers,
                 newBrowser, page, links, linkIdx, successCount, puOutcome,
                 fatal, exitCode>>
  /\ UNCHANGED verifyVars
  /\ errorAt' = Append(errorAt, [target |-> i, link |-> linkIdx])
  /\ UNCHANGED outcomes
  /\ UNCHANGED openPages

\* The link's retryOperation returned: count it, take the next link or return.
LinkReturned ==
  /\ pc = "verify"
  /\ rpc = "returned"
  /\ successCount' = successCount + 1
  /\ IF linkIdx < Len(links)
       THEN /\ linkIdx' = linkIdx + 1
            /\ RetryStart(2)
            /\ UNCHANGED <<page, puOutcome, i, pc, outcomes>>
       ELSE /\ page' = ClosePage(page)
            /\ puOutcome' = "returned"
            /\ outcomes' = Finished("verified")
            /\ i' = i + 1
            /\ pc' = "iter"
            /\ UNCHANGED <<linkIdx, retryVars>>
  /\ UNCHANGED <<urls, maxRetriesOpt, browser, context, browsers, newBrowser,
                 links, attempted, fatal, faults,
                 exitCode>>
  /\ UNCHANGED <<verifyVars, stats>>
  /\ UNCHANGED errorAt
  /\ openPages' = IF linkIdx < Len(links) THEN openPages
                                          ELSE PagesAfterClose(page, openPages)

\* The link's retryOperation throws lastError out of the for..of loop and out of
\* processUrl.
LinkExhausted ==
  /\ pc = "verify"
  /\ RetryThrow
  /\ ProcessUrlThrows(lastError)
  /\ UNCHANGED <<urls, maxRetriesOpt, newBrowser, links, linkIdx, successCount,
                 attempted, fatal, faults,
                 exitCode>>
  /\ UNCHANGED verifyVars
  /\ outcomes' = Finished("linkFailed")

Summary_FailsOnAnyFailure ==
  /\ pc = "iter"
  /\ i > Len(urls)
  /\ RunEnds(IF stats.failedDownloads > 0 THEN 1 ELSE 0)
  /\ UNCHANGED <<urls, maxRetriesOpt, i, browser, context, newBrowser, page,
                 links, linkIdx, successCount, attempted, puOutcome, fatal,
                 faults>>
  /\ UNCHANGED <<retryVars, verifyVars, stats>>
  /\ UNCHANGED <<outcomes, errorAt>>
  /\ UNCHANGED openPages

\* After the last target: the summary, the final check, the finally block and
\* the exit of the main execution.
Summary ==
  /\ pc = "iter"
  /\ i > Len(urls)
  /\ RunEnds(IF stats.successfulDownloads = 0 /\ stats.totalLinks > 0 THEN 1 ELSE 0)
  /\ UNCHANGED <<urls, maxRetriesOpt, i, browser, context, newBrowser, page,
                 links, linkIdx, successCount, attempted, puOutcome, fatal,
                 faults>>
  /\ UNCHANGED <<retryVars, verifyVars, stats>>
  /\ UNCHANGED <<outcomes, errorAt>>
  /\ UNCHANGED openPages

\* GOFILE_URLS holding n lines, each a URL.
RECURSIVE UrlLines(_)
UrlLines(n) == IF n = 1 THEN <<UrlA>> ELSE UrlLines(n - 1) \o <<LF, UrlA>>

\* Configurations a run starts from: the variable unset or empty, one line
\* that is not a URL, and 1 to MaxUrls lines that are.
RunConfigs == {Absent, <<>>, <<Junk>>} \cup {UrlLines(n) : n \in 1..MaxUrls}

Init ==
  /\ RetryIdle
  /\ HeadersConstructed
  /\ ObjectIdle
  /\ VerifyIdle
  /\ ppc = "split"
  /\ urlsEnv \in RunConfigs
  /\ parsed = <<>>
  /\ kept = <<>>
  /\ warnings = <<>>
  /\ thrown = MsgNone
  /\ stats = StatsZero
  /\ pc = "start"
  /\ urls = <<>>
  /\ maxRetriesOpt \in 0..MaxRetriesOpt
  /\ i = 1
  /\ browser = 0
  /\ context = 0
  /\ browsers = <<>>
  /\ newBrowser = 0
  /\ page = "none"
  /\ links = <<>>
  /\ linkIdx = 1
  /\ successCount = 0
  /\ attempted = {}
  /\ puOutcome = "none"
  /\ fatal = FALSE
  /\ faults = 0
  /\ exitCode = -1
  /\ outcomes = <<>>
  /\ errorAt = <<>>
  /\ openPages = 0

Next ==
  \/ ParseSplit /\ UNCHANGED <<retryVars, verifyVars, headerVars, objectVars, runVars>>
  \/ ParseTrim /\ UNCHANGED <<retryVars, verifyVars, headerVars, objectVars, runVars>>
  \/ ParseFilterBoolean /\ UNCHANGED <<retryVars, verifyVars, headerVars, objectVars, runVars>>
  \/ ParseUrlAccepted /\ UNCHANGED <<retryVars, verifyVars, headerVars, objectVars, runVars>>
  \/ ParseUrlRejected /\ UNCHANGED <<retryVars, verifyVars, headerVars, objectVars, runVars>>
  \/ ParseThrows /\ UNCHANGED <<retryVars, verifyVars, headerVars, objectVars, runVars>>
  \/ ParseReturns /\ UNCHANGED <<retryVars, verifyVars, headerVars, objectVars, runVars>>
  \/ ParseUrls /\ UNCHANGED <<parseVars, headerVars, objectVars>>
  \/ SetupLaunch /\ UNCHANGED <<parseVars, headerVars, objectVars>>
  \/ SetupLaunchFails /\ UNCHANGED <<parseVars, headerVars, objectVars>>
  \/ SetupContext /\ UNCHANGED <<parseVars, headerVars, objectVars>>
  \/ SetupContextFails /\ UNCHANGED <<parseVars, headerVars, objectVars>>
  \/ IterProcess /\ UNCHANGED <<parseVars, headerVars, objectVars>>
  \/ IterRecreate /\ UNCHANGED <<parseVars, headerVars, objectVars>>
  \/ BrowserCrash /\ UNCHANGED <<parseVars, headerVars, objectVars>>
  \/ ProbeFails /\ UNCHANGED <<parseVars, headerVars, objectVars>>
  \/ ProbeBroken /\ UNCHANGED <<parseVars, headerVars, objectVars>>
  \/ ProbeSucceeds /\ UNCHANGED <<parseVars, headerVars, objectVars>>
  \/ ProbeExhausted /\ UNCHANGED <<parseVars, headerVars, objectVars>>
  \/ ProbeReturned /\ UNCHANGED <<parseVars, headerVars, objectVars>>
  \/ LinkAttemptOk /\ UNCHANGED <<parseVars, headerVars, objectVars>>
  \/ LinkAttemptFails /\ UNCHANGED <<parseVars, headerVars, objectVars>>
  \/ LinkReturned /\ UNCHANGED <<parseVars, headerVars, objectVars>>
  \/ LinkExhausted /\ UNCHANGED <<parseVars, headerVars, objectVars>>
  \/ Summary /\ UNCHANGED <<parseVars, headerVars, objectVars>>

Spec == Init /\ [][Next]_vars

\* Where the program stands: the positions of run, parseUrls and
\* retryOperation, their loop variables, and the state of the browsers.
position == <<pc, ppc, rpc, attempt, i, linkIdx, Len(parsed), browsers>>

\* Every awaited call settles and the event loop then runs the continuation
\* that waits for it: a step that can be taken is eventually taken.
SpecLive == Spec /\ WF_position(Next)

(* ------------- retryOperation on its own, any operation --------------- *)
\* Errors an arbitrary operation may raise, and values it may return.
OpErrors == {MsgTimeout, Msg429, MsgNone}
OpValues == {<<"value", "a">>, <<"value", "b">>}


InitRetry ==
  /\ rpc = "loop"
  /\ rMax \in 0..MaxAttempts
  /\ attempt = 1
  /\ lastError = Undefined
  /\ calls = 0
  /\ sleeps = <<>>
  /\ failures = <<>>
  /\ rResult = Undefined
  /\ VerifyIdle
  /\ ParseIdle
  /\ HeadersConstructed
  /\ ObjectIdle
  /\ RunIdle
  /\ stats = StatsZero

OpFails ==
  /\ RetryInvoking
  /\ \E e \in OpErrors : RetryCatch(e)
  /\ UNCHANGED <<verifyVars, parseVars, headerVars, objectVars, stats, runVars>>

OpSucceeds ==
  /\ RetryInvoking
  /\ \E v \in OpValues : RetryReturn(v)
  /\ UNCHANGED <<verifyVars, parseVars, headerVars, objectVars, stats, runVars>>

OpExhausted ==
  /\ RetryThrow
  /\ UNCHANGED <<verifyVars, parseVars, headerVars, objectVars, stats, runVars>>

NextRetry == OpFails \/ OpSucceeds \/ OpExhausted

SpecRetry == InitRetry /\ [][NextRetry]_vars

(* --------------------- the link verifier on its own ------------------- *)
InitVerify ==
  /\ RetryIdle
  /\ HeadersConstructed
  /\ ObjectIdle
  /\ ParseIdle
  /\ RunIdle
  /\ stats = StatsZero
  /\ vpc = "fetch"
  /\ vVariant \in {"downloadSampleFromLink", "downloadPartial"}
  /\ vUrl \in LinkUrls
  /\ vBudget \in IF vVariant = "downloadPartial" THEN DownloadBytesChoices ELSE {MaxBytes}
  /\ vStatus = 0
  /\ vBody = <<>>
  /\ vBytes = 0
  /\ vConsumed = 0
  /\ vLast = 0
  /\ vLocked = FALSE
  /\ transfer = "none"
  /\ vResult = "pending"

NextVerify ==
  \/ VFetchRejects /\ UNCHANGED <<retryVars, parseVars, headerVars, objectVars, runVars>>
  \/ VFetchBadStatus /\ UNCHANGED <<retryVars, parseVars, headerVars, objectVars, runVars>>
  \/ VFetchNoBody /\ UNCHANGED <<retryVars, parseVars, headerVars, objectVars, runVars>>
  \/ VFetchBody /\ UNCHANGED <<retryVars, parseVars, headerVars, objectVars, runVars>>
  \/ VReadChunk /\ UNCHANGED <<retryVars, parseVars, headerVars, objectVars, runVars>>
  \/ VReadDone /\ UNCHANGED <<retryVars, parseVars, headerVars, objectVars, runVars>>
  \/ VReadRejects /\ UNCHANGED <<retryVars, parseVars, headerVars, objectVars, runVars>>

SpecVerify == InitVerify /\ [][NextVerify]_vars

(* ------------------------ parseUrls on its own ------------------------ *)
InitParse ==
  /\ RetryIdle
  /\ HeadersConstructed
  /\ ObjectIdle
  /\ VerifyIdle
  /\ RunIdle
  /\ stats = StatsZero
  /\ ppc = "split"
  /\ urlsEnv \in SeqsUpTo(Tokens, MaxEnvLen) \cup {Absent}
  /\ parsed = <<>>
  /\ kept = <<>>
  /\ warnings = <<>>
  /\ thrown = MsgNone

NextParse ==
  \/ ParseSplit /\ UNCHANGED <<retryVars, verifyVars, headerVars, objectVars, runVars>>
  \/ ParseTrim /\ UNCHANGED <<retryVars, verifyVars, headerVars, objectVars, runVars>>
  \/ ParseFilterBoolean /\ UNCHANGED <<retryVars, verifyVars, headerVars, objectVars, runVars>>
  \/ ParseUrlAccepted /\ UNCHANGED <<retryVars, verifyVars, headerVars, objectVars, runVars>>
  \/ ParseUrlRejected /\ UNCHANGED <<retryVars, verifyVars, headerVars, objectVars, runVars>>
  \/ ParseThrows /\ UNCHANGED <<retryVars, verifyVars, headerVars, objectVars, runVars>>
  \/ ParseReturns /\ UNCHANGED <<retryVars, verifyVars, headerVars, objectVars, runVars>>

SpecParse == InitParse /\ [][NextParse]_vars

(* ---------------------- HeadersManager on its own --------------------- *)
InitHeaders ==
  /\ RetryIdle
  /\ VerifyIdle
  /\ ParseIdle
  /\ RunIdle
  /\ stats = StatsZero
  /\ HeadersConstructed
  /\ ObjectIdle

NextHeaders ==
  \/ GetRandomBrowserHeaders /\ UNCHANGED <<retryVars, verifyVars, parseVars, objectVars, stats, runVars>>
  \/ GetRandomDownloadHeaders /\ UNCHANGED <<retryVars, verifyVars, parseVars, objectVars, stats, runVars>>
  \/ ResetSession /\ UNCHANGED <<retryVars, verifyVars, parseVars, objectVars, stats, runVars>>
  \/ SetupBrowserHeaders /\ UNCHANGED <<retryVars, verifyVars, parseVars, objectVars, stats, runVars>>

SpecHeaders == InitHeaders /\ [][NextHeaders]_vars

(* ----------------------- the constructor on its own ------------------- *)
BooleanTexts == {Unset, <<"true">>, <<"false">>, <<"1">>}
PassedFlags == {FlagNotGiven, Given(TRUE), Given(FALSE)}

InitOptions ==
  /\ RetryIdle
  /\ VerifyIdle
  /\ ParseIdle
  /\ RunIdle
  /\ HeadersConstructed
  /\ stats = StatsZero
  /\ opc = "new"
  /\ optName \in NumericOptions
  /\ envText \in SeqsUpTo(EnvChars, MaxEnvTextLen) \cup {Unset}
  /\ envHeadless \in BooleanTexts
  /\ envVerbose \in BooleanTexts
  /\ passed \in [num : {NotGiven, Given(0), Given(5)},
                 headless : PassedFlags, verbose : PassedFlags]
  /\ options = NoOptions
  /\ logCalls = <<>>
  /\ console = <<>>

NextOptions ==
  Construct /\ UNCHANGED <<retryVars, verifyVars, parseVars, headerVars, stats, runVars>>

SpecOptions == InitOptions /\ [][NextOptions]_vars

(* ------------------------------ log on its own ------------------------ *)
InitLog ==
  /\ RetryIdle
  /\ VerifyIdle
  /\ ParseIdle
  /\ RunIdle
  /\ HeadersConstructed
  /\ stats = StatsZero
  /\ opc = "built"
  /\ optName = "maxRetries"
  /\ envText = Unset
  /\ envHeadless = Unset
  /\ envVerbose = Unset
  /\ passed \in [num : {NotGiven}, headless : {FlagNotGiven},
                 verbose : PassedFlags]
  /\ options = [NoOptions EXCEPT !.num = 3,
                  !.verbose = passed.verbose.given /\ passed.verbose.value]
  /\ logCalls = <<>>
  /\ console = <<>>

NextLog ==
  Log /\ UNCHANGED <<retryVars, verifyVars, parseVars, headerVars, stats, runVars>>

SpecLog == InitLog /\ [][NextLog]_vars

(* ======================= retryOperation: claims ======================= *)
Max(a, b) == IF a > b THEN a ELSE b

\* Every attempt of this call has failed and the loop is over.
AllAttemptsFailed == rpc = "thrown"

C8_ReturnsOnFirstSuccess ==
  /\ [](calls <= Max(rMax, 0))
  /\ [](rpc = "returned" =>
          /\ calls = Len(failures) + 1
          /\ calls = attempt
          /\ Len(sleeps) = calls - 1
          /\ rResult \in OpValues)
  /\ [][rpc = "returned" => UNCHANGED <<calls, sleeps, rResult>>]_vars

\* The first two attempts fail and the third returns.
C8_Witness ==
  /\ rpc = "returned"
  /\ calls = 3
  /\ Len(sleeps) = 2
  /\ rMax > 3

\* C9 as stated: for every maximum attempt count the primitive accepts, the
\* error raised when all attempts fail is the error of the final attempt,
\* never an empty value.
C9_RaisesFinalError_AnyCount ==
  AllAttemptsFailed =>
    /\ Len(failures) >= 1
    /\ rResult # Undefined
    /\ rResult = failures[Len(failures)]

\* C9 amended: for every maximum attempt count n >= 1, the error raised when
\* all n attempts fail is the error of attempt n.
C9_RaisesFinalError ==
  (AllAttemptsFailed /\ rMax >= 1) =>
    /\ Len(failures) = rMax
    /\ rResult = failures[rMax]

\* Three failures whose last error differs from the first.
C9_Witness ==
  /\ AllAttemptsFailed
  /\ rMax = 3
  /\ rResult = failures[3]
  /\ failures[1] # failures[3]

\* C10: the k-th suspension of a call follows failed attempt k < n and lasts
\* min(1000 * 2^(k-1), 10000) ms after an ordinary failure and
\* min(10000 * 3^(k-1), 60000) ms after a rate-limit failure: it depends on k
\* and the profile alone.
C10_DelayFormula ==
  /\ Len(sleeps) <= Len(failures)
  /\ Len(sleeps) <= Max(rMax - 1, 0)
  /\ \A k \in 1..Len(sleeps) :
       sleeps[k] = IF Includes(failures[k], "429")
                     THEN Min(10000 * 3^(k - 1), 60000)
                     ELSE Min(1000 * 2^(k - 1), 10000)

\* A call that has slept 10 s, 30 s and 60 s after three rate-limit failures.
C10_Witness ==
  /\ Len(sleeps) >= 3
  /\ \A k \in 1..3 : IsRateLimited(failures[k])
  /\ sleeps[1] = 10000
  /\ sleeps[2] = 30000
  /\ sleeps[3] = 60000

C6_CancelsAtBudget ==
  (vpc = "done" /\ vResult = TRUE /\ vBytes >= vBudget /\ vBody # <<>>)
    => transfer = "cancelled"

\* The response of the attempt arrived with status 200 or 206.
StatusAccepted == vStatus \in {200, 206}

\* C11 as stated: an attempt reports success exactly when the response status
\* is 200 or 206, whatever happens to the body.
C11_SuccessIffStatus ==
  vpc = "done" => (vResult = TRUE <=> StatusAccepted)

\* C11 amended: an attempt reports failure for every status other than 200
\* and 206 and whenever fetch or a read of the body rejects; with status 200
\* or 206 and no rejected read it reports success (downloadPartial only when
\* the response has a body), whatever the body's content, length or chunking.
C11_SuccessIffStatusAndRead ==
  vpc = "done" =>
    (vResult = TRUE <=>
       /\ StatusAccepted
       /\ transfer # "errored"
       /\ vVariant = "downloadPartial" => transfer # "none")

\* Status 206, part of the body read, success.
C11_Witness ==
  /\ vpc = "done"
  /\ vStatus = 206
  /\ vResult = TRUE
  /\ vConsumed > 0
  /\ vBody # <<>>

\* C12: an attempt whose response has status 200 or 206 and no body is
\* reported as a failure: failure counter 1, one error recorded for the link,
\* success counter untouched.
C12_NoBodyIsFailure ==
  (vpc = "done" /\ StatusAccepted /\ transfer = "none") =>
    /\ vResult = FALSE
    /\ stats.failedDownloads = 1
    /\ Len(stats.errors) = 1
    /\ stats.successfulDownloads = 0

\* C13: a finished attempt has changed the statistics in one of two ways: a
\* success added 1 to the success counter and min(bytes read, budget) to the
\* byte counter and nothing else; a failure added 1 to the failure counter
\* and one (url, message) pair for the link and nothing else.
C13_StatsEffect ==
  vpc = "done" =>
    IF vResult = TRUE
      THEN stats = [StatsZero EXCEPT !.successfulDownloads = 1,
                                     !.downloadedBytes = Min(vBytes, vBudget)]
      ELSE /\ Len(stats.errors) = 1
           /\ stats.errors[1].url = vUrl
           /\ stats = [StatsZero EXCEPT !.failedDownloads = 1,
                                        !.errors = stats.errors]

(* ========================== run: claims =============================== *)
\* C2: once processUrl is over for a target whose probe found links, every
\* one of those links was handed to the verifier, whether or not an earlier
\* link used up its retries.
C2_FailedLinkDoesNotAbortTarget ==
  (puOutcome # "none" /\ Len(links) > 0) => attempted = 1..Len(links)

\* C3: when run has finished, no browser it launched is still open.
C3_AllBrowsersClosedAtExit ==
  pc = "exited" => \A b \in 1..Len(browsers) : browsers[b] # "open"

C7_RateLimitedLinkUsesLongProfile ==
  ( /\ pc = "verify"
    /\ rpc = "loop"
    /\ Len(sleeps) = 1
    /\ Len(stats.errors) > 0
    /\ Includes(stats.errors[Len(stats.errors)].error, "429") )
    => sleeps[1] = 10000

\* Positions of stats.errors pushed while target number k was in hand.
TargetErrors(k) == {p \in 1..Len(stats.errors) : errorAt[p].target = k}

\* C14: a target whose probe failed on every attempt has exactly one error,
\* under its own URL; the run did not end there: at the exit every target of
\* the list has been taken up by the loop, and a non-zero exit code comes
\* from the final check only (links found, none verified).
C14_ProbeFailureDoesNotStopRun ==
  \A k \in 1..Len(outcomes) :
    outcomes[k].how = "probeFailed" =>
      /\ outcomes[k].target = urls[k]
      /\ \E p \in 1..Len(stats.errors) :
           /\ TargetErrors(k) = {p}
           /\ stats.errors[p].url = TargetUrl(urls[k])
      /\ pc = "exited" => Len(outcomes) = Len(urls)
      /\ (pc = "exited" /\ exitCode # 0) =>
           (stats.successfulDownloads = 0 /\ stats.totalLinks > 0)

\* The probe of the first target failed on every attempt, the second target
\* was probed and verified, and the run exited with code 0.
C14_Witness ==
  /\ pc = "exited"
  /\ exitCode = 0
  /\ Len(outcomes) = 2
  /\ outcomes[1].how = "probeFailed"
  /\ outcomes[2].how = "verified"
  /\ maxRetriesOpt = 2

\* C15: once a relaunch of the browser has failed inside the target loop, no
\* later target is taken up and the run exits with a non-zero code.
C15_FailedRelaunchAbortsRun ==
  \A k \in 1..Len(outcomes) :
    outcomes[k].how = "relaunchFailed" =>
      /\ Len(outcomes) = k
      /\ pc = "exited" => exitCode # 0

(* ========================== parseUrls: claims ========================= *)
\* The configuration as the claim reads it: positions of the line feeds, the
\* positions where a line starts, and where the line starting at `a` ends.
LineFeeds == {p \in 1..Len(EnvOrEmpty(urlsEnv)) : EnvOrEmpty(urlsEnv)[p] = LF}
LineStarts == {1} \cup {p + 1 : p \in LineFeeds}
LineEnd(a) ==
  LET later == {p \in LineFeeds : p >= a}
  IN  IF later = {} THEN Len(EnvOrEmpty(urlsEnv))
      ELSE (CHOOSE p \in later : \A q \in later : p <= q) - 1

\* The line starting at `a` without the white space around it.
LineText(a) ==
  LET str == EnvOrEmpty(urlsEnv)
      solid == {p \in a..LineEnd(a) : ~IsSpace(str[p])}
  IN  IF solid = {} THEN <<>>
      ELSE SubSeq(str, CHOOSE p \in solid : \A q \in solid : p <= q,
                       CHOOSE p \in solid : \A q \in solid : p >= q)

\* Starts of the lines that are targets, and of the lines that are rejected.
TargetLines == {a \in LineStarts : LineText(a) # <<>> /\ ParsesAsUrl(LineText(a))}
RejectedLines == {a \in LineStarts : LineText(a) # <<>> /\ ~ParsesAsUrl(LineText(a))}

\* `list` holds the texts of the lines of `from`, in the order of the lines.
ListsLinesOf(list, from) ==
  /\ Len(list) = Cardinality(from)
  /\ \A a \in from :
       list[Cardinality({b \in from : b < a}) + 1] = LineText(a)

\* C16: when parseUrls ends, the targets are exactly the trimmed texts of the
\* lines that are non-empty after trimming and parse as URLs, in the order of
\* the lines and with repeats kept; there is exactly one warning for every
\* other non-empty line; a returning call sets stats.totalUrls to the number
\* of targets, and the call throws exactly when there is no target.
C16_ParseUrlsResult ==
  ppc \in {"returned", "threw"} =>
    /\ ListsLinesOf(kept, TargetLines)
    /\ ListsLinesOf(warnings, RejectedLines)
    /\ ppc = "returned" <=> TargetLines # {}
    /\ ppc = "returned" => stats.totalUrls = Len(kept)

\* Three lines of which the middle one is not a URL: 2 targets, 1 warning.
C16_Witness ==
  /\ ppc = "returned"
  /\ urlsEnv = <<UrlA, LF, Junk, LF, UrlA>>
  /\ kept = <<(<<UrlA>>), (<<UrlA>>)>>
  /\ warnings = <<(<<Junk>>)>>
  /\ stats.totalUrls = 2

(* ==================== run without a target: claims ==================== *)
\* Some line of the configuration is a target.
HasTargetLine ==
  \E a \in LineStarts : LineText(a) # <<>> /\ ParsesAsUrl(LineText(a))

\* C17: with a configuration that is unset, empty or without a line that is
\* a URL, run goes nowhere but to its exit: parseUrls throws 'No valid URLs
\* found', the exit code is 1, and no browser was launched, no page opened,
\* no operation or verification attempted, and the statistics are as
\* constructed.
C17_NoTargetNoActivity ==
  ~HasTargetLine =>
    /\ pc \in {"start", "exited"}
    /\ browsers = <<>>
    /\ newBrowser = 0
    /\ page = "none"
    /\ calls = 0
    /\ attempted = {}
    /\ vpc = "idle"
    /\ stats = StatsZero
    /\ pc = "exited" => (ppc = "threw" /\ thrown = MsgNoUrls /\ exitCode = 1)

\* A run whose configuration is one line that is not a URL has exited.
C17_Witness ==
  /\ pc = "exited"
  /\ urlsEnv = <<Junk>>
  /\ warnings = <<(<<Junk>>)>>
  /\ thrown = MsgNoUrls
  /\ exitCode = 1

(* ===================== targets without links: claims ================== *)
\* A step taken while a target is being probed that stays in the probe or
\* ends the target with no link found.
ZeroLinkTargetStep ==
  /\ pc = "probe"
  /\ \/ pc' = "probe"
     \/ /\ Len(outcomes') = Len(outcomes) + 1
        /\ outcomes'[Len(outcomes')].how = "noLinks"

\* Some target of the run ended with no link found.
SomeTargetWithoutLinks ==
  \E k \in 1..Len(outcomes) : outcomes[k].how = "noLinks"

\* C18: probing a target and finding no link changes no counter and no
\* error entry and does not end the run; the loop steps to the next target.
\* A run with such a target takes up every target, and exits with code 0 if
\* some verification succeeded.
C18_NoLinksChangeNothing ==
  /\ [][ZeroLinkTargetStep =>
          /\ stats' = stats
          /\ exitCode' = -1
          /\ pc' = "iter" => i' = i + 1]_vars
  /\ [](pc = "exited" /\ SomeTargetWithoutLinks =>
          /\ Len(outcomes) = Len(urls)
          /\ stats.successfulDownloads >= 1 => exitCode = 0)

\* A finished run of two targets: no link on the first, a verified link on
\* the second, exit code 0.
C18_Witness ==
  /\ pc = "exited"
  /\ Len(outcomes) = 2
  /\ outcomes[1].how = "noLinks"
  /\ outcomes[2].how = "verified"
  /\ stats.successfulDownloads >= 1
  /\ Len(stats.errors) = 0
  /\ exitCode = 0

(* ========================= sequencing: claims ========================= *)
\* The failure stamped `a` is not later than the one stamped `b`: an earlier
\* target, or the same target and an earlier or the same link; the error run
\* pushes for a target (link 0) comes after the failures of its links.
NotAfter(a, b) ==
  \/ a.target < b.target
  \/ /\ a.target = b.target
     /\ \/ b.link = 0
        \/ a.link # 0 /\ a.link <= b.link

\* C19: targets are taken up in configuration order, each once and one at a
\* time; a retried operation is in progress only as the probe or as the
\* verification of the one link in hand; while a target is probed every
\* recorded failure belongs to an earlier target, and while its links are
\* verified none belongs to a later link; stats.errors holds the failures in
\* the order they occurred, each under the URL that was in hand.
C19_StrictlySequential ==
  /\ Len(outcomes) <= Len(urls)
  /\ \A k \in 1..Len(outcomes) : outcomes[k].target = urls[k]
  /\ pc \in {"iter", "launch", "context", "probe", "verify"} =>
       Len(outcomes) = i - 1
  /\ rpc = "loop" => pc \in {"probe", "verify"}
  /\ pc = "verify" => attempted \subseteq 1..linkIdx
  /\ Len(errorAt) = Len(stats.errors)
  /\ \A p \in 1..Len(errorAt) :
       /\ errorAt[p].target <= Len(urls)
       /\ stats.errors[p].url =
            IF errorAt[p].link = 0 THEN TargetUrl(urls[errorAt[p].target])
                                   ELSE LinkUrl(errorAt[p].link)
       /\ pc = "probe" => errorAt[p].target < i
       /\ pc = "verify" => NotAfter(errorAt[p], [target |-> i, link |-> linkIdx])
       /\ p < Len(errorAt) => NotAfter(errorAt[p], errorAt[p + 1])

\* A finished run of two targets with a failed attempt on a link of the
\* first and a failed probe of the second: three errors, in that order.
C19_Witness ==
  /\ pc = "exited"
  /\ Len(outcomes) = 2
  /\ Len(stats.errors) = 3
  /\ errorAt[1] = [target |-> 1, link |-> 1]
  /\ errorAt[2] = [target |-> 1, link |-> 2]
  /\ errorAt[3] = [target |-> 2, link |-> 0]

(* ======================== HeadersManager: claims ====================== *)
\* C20: everything getRandomBrowserHeaders has returned since the last
\* resetSession (or since construction) is one and the same header set, the
\* cached one, with one User-Agent; at most one header set was drawn since
\* then, and none while a cached one existed; setupBrowser leaves a session
\* that was reset and drawn once.
C20_SessionHeadersConstant ==
  /\ \A k \in 1..Len(sessionReturns) :
       /\ sessionReturns[k] = sessionHeaders
       /\ sessionReturns[k].userAgent = sessionReturns[1].userAgent
  /\ sessionDraws = IF sessionReturns = <<>> THEN 0 ELSE 1
  /\ sessionHeaders = NoHeaders <=> sessionReturns = <<>>
  /\ lastCall = "setupBrowser" => (Len(sessionReturns) = 1 /\ sessionDraws = 1)

\* Three calls in one session returned the same Chrome header set although
\* download headers with another user agent were drawn in between.
C20_Witness ==
  /\ Len(sessionReturns) = 3
  /\ sessionHeaders.userAgent = UaChrome
  /\ downloadHeaders # NoHeaders
  /\ downloadHeaders.userAgent = UaFirefox
  /\ lastCall = "getRandomBrowserHeaders"

(* ====================== constructor and log: claims =================== *)
\* C21: a built option holds the value passed to the constructor when one
\* was passed, otherwise the value parsed from its environment variable when
\* that parses, otherwise its default.
C21_OptionPrecedence ==
  opc = "built" =>
    /\ options.num =
         IF passed.num.given THEN passed.num.value
         ELSE IF ~ParseInt(envText).nan THEN ParseInt(envText).value
         ELSE Default(optName)
    /\ options.headless =
         IF passed.headless.given THEN passed.headless.value
         ELSE IF envHeadless = <<"false">> THEN FALSE ELSE TRUE
    /\ options.verbose =
         IF passed.verbose.given THEN passed.verbose.value
         ELSE IF envVerbose = <<"true">> THEN TRUE ELSE FALSE

\* log emits on this call: levels info, warn and error always, debug when
\* verbose; a call without a level is at level info.
Emits(call) ==
  \/ call.level \in {"info", "warn", "error", LevelOmitted}
  \/ call.level = "debug" /\ options.verbose

\* The record the claim expects for an emitting call.
ExpectedRecord(call) ==
  [tag |-> CASE call.level \in {"info", LevelOmitted} -> "INFO"
             [] call.level = "warn" -> "WARN"
             [] call.level = "error" -> "ERROR"
             [] call.level = "debug" -> "DEBUG",
   message |-> call.message,
   stream |-> CASE call.level = "warn" -> "warn"
                [] call.level = "error" -> "error"
                [] OTHER -> "log"]

\* C22: the console holds, in call order, exactly one record for every call
\* at level info, warn or error, one for every debug call when verbose is
\* true, and nothing else; each record has the level in upper case and the
\* message.
C22_LogRecords ==
  LET emitting == SelectSeq(logCalls, Emits)
  IN  /\ Len(console) = Len(emitting)
      /\ \A k \in 1..Len(emitting) : console[k] = ExpectedRecord(emitting[k])

\* The three calls of the logging test on an object with verbose off: the
\* info and the error call gave a record, the debug call none.
C22_Witness ==
  /\ Len(logCalls) = 3
  /\ logCalls[1].level = "info"
  /\ logCalls[2].level = "error"
  /\ logCalls[3].level = "debug"
  /\ ~options.verbose
  /\ Len(console) = 2

(* ========================= run counters: claims ======================= *)
\* C23: failures are counted per link, so when the run has ended the success
\* counter plus the failure counter is at most the number of links found.
C23_OneVerdictPerLink ==
  pc = "exited" =>
    stats.successfulDownloads + stats.failedDownloads <= stats.totalLinks

\* C24: a probe attempt that finds no link is retried like a failed attempt,
\* so a probe is left with an empty result only after its last allowed
\* attempt, and a target that ended without links has an error of its own
\* in stats.errors.
C24_NoLinksIsProbeError ==
  /\ (pc = "probe" /\ rpc = "returned" /\ Len(rResult) = 0) => calls = rMax
  /\ \A k \in 1..Len(outcomes) :
       outcomes[k].how = "noLinks" =>
         \E p \in TargetErrors(k) : errorAt[p].link = 0

\* C25: whatever maxRetries is, the link in hand is verified under a budget
\* of 2 attempts, the second request only after the first failed; the links
\* of a target are distinct, and when processUrl has ended every one of them
\* has had at least one request.
C25_EveryLinkOneOrTwoRequests ==
  /\ pc = "verify" =>
       /\ rMax = 2
       /\ calls <= 2
       /\ calls = 2 => Len(failures) >= 1
  /\ \A a, b \in 1..Len(links) : links[a] = links[b] => a = b
  /\ puOutcome # "none" => \A j \in 1..Len(links) : j \in attempted

(* ====================== browser in the loop: claims =================== *)
\* A step that enters processUrl, and a step that ends a target because the
\* relaunch of the browser failed.
EntersProcessUrl == pc # "probe" /\ pc' = "probe"
RelaunchFailedStep ==
  /\ Len(outcomes') = Len(outcomes) + 1
  /\ outcomes'[Len(outcomes')].how = "relaunchFailed"

\* C26: processUrl is entered only with a browser that is set and connected
\* and with its context, for the same target the liveness check or the
\* relaunch was made for; a failed relaunch ends the target with one error
\* and without processUrl being entered.
C26_ProcessUrlGetsLiveBrowser ==
  /\ [][EntersProcessUrl =>
          /\ pc \in {"iter", "context"}
          /\ browser' # 0
          /\ context' = browser'
          /\ browsers'[browser'] = "open"
          /\ i' = i]_vars
  /\ [][RelaunchFailedStep =>
          /\ pc \in {"launch", "context"}
          /\ pc' = "iter"
          /\ i' = i + 1
          /\ Len(stats'.errors) = Len(stats.errors) + 1
          /\ UNCHANGED <<page, puOutcome, calls>>]_vars

\* The second target is being probed on a second browser, after the probe
\* of the first target failed on a closed browser.
C26_Witness ==
  /\ pc = "probe"
  /\ i = 2
  /\ Len(outcomes) = 1
  /\ outcomes[1].how = "probeFailed"
  /\ Len(browsers) = 2
  /\ browsers[1] = "closed"
  /\ browser = 2
  /\ browsers[2] = "open"

(* ============================= pages: claims ========================== *)
\* C27: the only page of processUrl that can be open is the one its variable
\* page holds, so there is at most one; when processUrl has returned or
\* raised there is none.
C27_AtMostOnePageClosedAtEnd ==
  /\ openPages = IF page = "open" THEN 1 ELSE 0
  /\ puOutcome # "none" => (openPages = 0 /\ page # "open")
  /\ pc \in {"iter", "launch", "context", "exited"} => openPages = 0

\* processUrl raised after two probe attempts that each opened a page.
C27_Witness ==
  /\ puOutcome = "threw"
  /\ Len(outcomes) = 1
  /\ outcomes[1].how = "probeFailed"
  /\ Len(failures) = 2
  /\ page = "closed"
  /\ browsers[1] = "open"

(* ========================== statistics: claims ======================== *)
\* Positions of `outcomes` whose target raised to the catch block of the
\* target loop of run.
RaisedTargets ==
  {k \in 1..Len(outcomes) :
     outcomes[k].how \in {"probeFailed", "linkFailed", "relaunchFailed"}}

\* stats.errors only grows at its end.
ErrorsAppended ==
  /\ Len(stats'.errors) >= Len(stats.errors)
  /\ SubSeq(stats'.errors, 1, Len(stats.errors)) = stats.errors

CountersNeverDecrease ==
  /\ stats'.successfulDownloads >= stats.successfulDownloads
  /\ stats'.failedDownloads >= stats.failedDownloads
  /\ stats'.totalLinks >= stats.totalLinks

\* C28: the error list is as long as the failure counter plus the number of
\* targets that raised to the target loop of run; every step leaves the
\* entries already recorded in place and lowers none of the counters.
C28_ErrorsAccountedFor ==
  /\ [](Len(stats.errors) = stats.failedDownloads + Cardinality(RaisedTargets))
  /\ [][ErrorsAppended /\ CountersNeverDecrease]_vars

\* A run that ended with a link failure, a raised target and a success on
\* record.
C28_Witness ==
  /\ pc = "exited"
  /\ stats.failedDownloads >= 1
  /\ Cardinality(RaisedTargets) >= 1
  /\ stats.successfulDownloads >= 1
  /\ Len(stats.errors) >= 2

\* C29: in every reachable state successfulDownloads is at most totalLinks
\* and failedDownloads is at most twice totalLinks.
C29_CountersBoundedByLinks ==
  /\ stats.successfulDownloads <= stats.totalLinks
  /\ stats.failedDownloads <= 2 * stats.totalLinks

\* Both attempts on the only link found so far have failed: the failure
\* counter is at its bound.
C29_Witness ==
  /\ stats.totalLinks = 1
  /\ stats.failedDownloads = 2
  /\ stats.successfulDownloads = 0
  /\ attempted = {1}

(* =========================== termination: claims ====================== *)
\* Steps one link can still take in its retryOperation: the attempts left, the
\* throw or the return.
RetryRank == IF rpc = "loop" THEN 1 + (rMax - attempt + 1) ELSE 1

\* Upper bounds of the steps of the link loop, of processUrl and of one
\* iteration of the target loop.
VerifyRankMax == 4 * MaxLinks
ProbeRankMax == VerifyRankMax + MaxRetriesOpt + 3
IterationRankMax == ProbeRankMax + 4
ParseRankMax == MaxEnvLen + 1

\* Steps parseUrls can still take.
ParseRank ==
  CASE ppc = "split" -> ParseRankMax + 4
    [] ppc = "trim" -> ParseRankMax + 3
    [] ppc = "filter" -> ParseRankMax + 2
    [] ppc = "validate" -> 1 + Len(parsed)
    [] OTHER -> 0

\* Steps the program itself can still take: the targets left, and the position
\* in the iteration in hand.
ProgramRank ==
  LET later == (Len(urls) - i) * IterationRankMax + 1
  IN CASE pc = "exited" -> 0
       [] pc = "start" -> (ParseRankMax + 1) * IterationRankMax + 4 + ParseRank
       [] pc = "launch0" -> Len(urls) * IterationRankMax + 3
       [] pc = "context0" -> Len(urls) * IterationRankMax + 2
       [] pc = "iter" /\ i > Len(urls) -> 1
       [] pc = "iter" /\ i <= Len(urls) -> later + ProbeRankMax + 3
       [] pc = "launch" -> later + ProbeRankMax + 2
       [] pc = "context" -> later + ProbeRankMax + 1
       [] pc = "probe" -> later + VerifyRankMax + 1 + RetryRank
       [] pc = "verify" ->
            later + (Len(links) - linkIdx) * (rMax + 2) + RetryRank

\* The browser run holds can still disconnect.
CanCrash == IF browser # 0 /\ browsers[browser] = "open" THEN 1 ELSE 0

\* A natural number that every step of the program and every disconnection
\* lowers.
Rank == 2 * ProgramRank + CanCrash

\* C30: with every call settling, run finishes and the process exits with
\* code 0 or 1; every step, failures and browser recreations included, lowers
\* a natural number, so no sequence of them goes on forever.
C30_RunTerminates ==
  /\ <>[](pc = "exited" /\ exitCode \in {0, 1})
  /\ [][Rank' < Rank /\ Rank' >= 0]_vars

\* The process has exited after failures that made run launch a second
\* browser.
C30_Witness ==
  /\ pc = "exited"
  /\ Len(browsers) >= 2
  /\ faults >= 2
  /\ i > Len(urls)

====
